---- MODULE Spec2Model ----
(***************************************************************************)
(* Model of Libraries/syscalls: the syscall resolver (hells_gate.rs) and   *)
(* the dispatch trampoline (asm.rs).                                       *)
(*                                                                         *)
(* Memory is byte addressed and sparse: an address that holds no modelled  *)
(* byte reads as padding.  The export directory of the module is the       *)
(* record env.dir plus the three arrays it points at.  The arrays are      *)
(* read through slices of NumberOfNames entries, as the code builds them,  *)
(* and every ordinal of the modelled tables indexes inside its slice.      *)
(*                                                                         *)
(* SpecResolver runs fetch_nt_syscall one call at a time, SpecRace runs it *)
(* on two threads step by step, SpecTrampoline and SpecTrampolineST run    *)
(* set_ssn and run_direct_syscall on two threads and on one.               *)
(***************************************************************************)
EXTENDS Integers, Sequences, FiniteSets, TLC

VARIABLES
    env,            \* what the process exposes: PEB, loader entry, export directory
    mem,            \* code bytes of the module, address -> byte
    overflow_checks,\* build profile: TRUE = arithmetic overflow panics
    G_NTDLL_CONF,   \* hells_gate.rs:23
    SYSCALL_CACHE,  \* hells_gate.rs:38
    builds,         \* number of times G_NTDLL_CONF was assigned
    last,           \* observation of the latest fetch_nt_syscall call
    first,          \* hash -> first descriptor fetch_nt_syscall returned Ok
    wSystemCall,    \* asm.rs:9, the dispatch slot
    pc,             \* per thread: position inside set_ssn / run_direct_syscall
    reg,            \* per thread: registers eax, ecx
    hist,           \* per thread: observation of its set/run calls
    writer,         \* the store that wrote the current content of wSystemCall
    slots,          \* heap buffer of SYSCALL_CACHE: the slots written so far
    rpc,            \* per thread: position inside fetch_nt_syscall
    rloc            \* per thread: locals of fetch_nt_syscall and its result

vars == <<env, mem, overflow_checks, G_NTDLL_CONF, SYSCALL_CACHE, builds, last,
          first, wSystemCall, pc, reg, hist, writer, slots, rpc, rloc>>

resolverVars == <<env, mem, overflow_checks, G_NTDLL_CONF, SYSCALL_CACHE, builds,
                  last, first>>
trampVars == <<wSystemCall, pc, reg, hist, writer>>
raceVars == <<rpc, rloc>>

----------------------------------------------------------------------------
(* Constants of hells_gate.rs *)

UP == -32
DOWN == 32
RANGE == 255

U16 == 65536       \* 2^16, the range of extract_syscall_number's result

----------------------------------------------------------------------------
(* Memory *)

\* an address outside the modelled bytes reads as int3 padding (0xCC)
ReadByte(m, a) == IF a \in DOMAIN m THEN m[a] ELSE 204

WriteBytes(m, a, bytes) ==
    [x \in (DOMAIN m) \cup (a .. a + Len(bytes) - 1) |->
        IF x >= a /\ x < a + Len(bytes) THEN bytes[x - a + 1] ELSE m[x]]

\* mov r10, rcx ; mov eax, imm32 with imm32 = n (n < 2^16 leaves bytes 6,7 zero)
StubBytes(n) ==
    <<76, 139, 209, 184, n % 256, (n \div 256) % 256, (n \div 65536) % 256, 0>>

\* jmp rel32 written over the first five bytes of a stub
JmpBytes == <<233, 120, 86, 52, 18>>

----------------------------------------------------------------------------
(* hells_gate.rs: byte pattern helpers *)

check_syscall_bytes(m, address, offset) ==
    /\ ReadByte(m, address + offset) = 76
    /\ ReadByte(m, address + 1 + offset) = 139
    /\ ReadByte(m, address + 2 + offset) = 209
    /\ ReadByte(m, address + 3 + offset) = 184
    /\ ReadByte(m, address + 6 + offset) = 0
    /\ ReadByte(m, address + 7 + offset) = 0

\* Mutant: the two bytes read in big-endian order
extract_big_endian(m, address, offset) ==
    LET high == ReadByte(m, address + 4 + offset)
        low  == ReadByte(m, address + 5 + offset)
    IN  ((high * 256) % U16) + low

extract_syscall_number(m, address, offset) ==
    LET high == ReadByte(m, address + 5 + offset)
        low  == ReadByte(m, address + 4 + offset)
    IN  ((high * 256) % U16) + low

\* u16 arithmetic of find_syscall_number: an overflow panics when the build
\* checks overflow and wraps modulo 2^16 otherwise.
SubU16(a, b, oc) ==
    IF a - b < 0
    THEN IF oc THEN [kind |-> "Panic", ssn |-> 0]
               ELSE [kind |-> "Some", ssn |-> (a - b) % U16]
    ELSE [kind |-> "Some", ssn |-> a - b]

AddU16(a, b, oc) ==
    IF a + b >= U16
    THEN IF oc THEN [kind |-> "Panic", ssn |-> 0]
               ELSE [kind |-> "Some", ssn |-> (a + b) % U16]
    ELSE [kind |-> "Some", ssn |-> a + b]

\* Mutant: the loop runs one step too far
find_one_step_further(m, func_address, oc) ==
    LET matches == {idx \in 1..(RANGE + 1) :
                        \/ check_syscall_bytes(m, func_address, idx * DOWN)
                        \/ check_syscall_bytes(m, func_address, idx * UP)}
    IN
    IF matches = {} THEN [kind |-> "None", ssn |-> 0]
    ELSE
    LET idx == CHOOSE i \in matches : \A j \in matches : i <= j IN
    IF check_syscall_bytes(m, func_address, idx * DOWN)
    THEN SubU16(extract_syscall_number(m, func_address, idx * DOWN), idx, oc)
    ELSE AddU16(extract_syscall_number(m, func_address, idx * UP), idx, oc)

\* The loop over idx = 1..RANGE returns at the first idx where a candidate
\* matches, the DOWN candidate being tested before the UP candidate.
find_syscall_number(m, func_address, oc) ==
    LET matches == {idx \in 1..RANGE :
                        \/ check_syscall_bytes(m, func_address, idx * DOWN)
                        \/ check_syscall_bytes(m, func_address, idx * UP)}
    IN
    IF matches = {} THEN [kind |-> "None", ssn |-> 0]
    ELSE
    LET idx == CHOOSE i \in matches : \A j \in matches : i <= j IN
    IF check_syscall_bytes(m, func_address, idx * DOWN)
    THEN SubU16(extract_syscall_number(m, func_address, idx * DOWN), idx, oc)
    ELSE AddU16(extract_syscall_number(m, func_address, idx * UP), idx, oc)

----------------------------------------------------------------------------
(* External primitives of the utils crate *)

\* CStr::to_str: a name is a sequence of bytes; it decodes when it is valid
\* UTF-8.  The names of the modelled tables use one-byte (ASCII) and two-byte
\* sequences only.
RECURSIVE IsUtf8From(_, _)
IsUtf8From(bytes, i) ==
    IF i > Len(bytes) THEN TRUE
    ELSE IF bytes[i] < 128 THEN IsUtf8From(bytes, i + 1)
    ELSE IF /\ bytes[i] >= 194 /\ bytes[i] <= 223
            /\ i + 1 <= Len(bytes)
            /\ bytes[i + 1] >= 128 /\ bytes[i + 1] <= 191
         THEN IsUtf8From(bytes, i + 2)
    ELSE FALSE

to_str(bytes) == IF IsUtf8From(bytes, 1) THEN [ok |-> TRUE, name |-> bytes]
                                         ELSE [ok |-> FALSE, name |-> <<>>]

\* utils::hash::compute_crc32_hash: a deterministic 32-bit hash of the name's
\* bytes.  Distinct names may collide; the empty name hashes to 0.  (The sum
\* of the bytes of a modelled name is far below 2^32.)
RECURSIVE HashFrom(_, _, _)
HashFrom(bytes, i, acc) ==
    IF i > Len(bytes) THEN acc
    ELSE HashFrom(bytes, i + 1, acc + bytes[i])

compute_crc32_hash(bytes) == HashFrom(bytes, 1, 0)

\* utils::get_export_directory
NoDir == [NumberOfNames |-> 0, AddressOfNames |-> 0, AddressOfFunctions |-> 0,
          AddressOfNameOrdinals |-> 0, found |-> FALSE]

get_export_directory(e, h_module) ==
    IF e.dir.found /\ h_module = e.DllBase THEN e.dir ELSE NoDir

----------------------------------------------------------------------------
(* hells_gate.rs: the Export Index *)

NullConfig ==
    [pdw_array_of_addresses |-> 0, pdw_array_of_names |-> 0,
     pw_array_of_ordinals |-> 0, dw_number_of_names |-> 0, u_module |-> 0]

\* Mutant: the closing check of the fields is missing
init_without_check(e) ==
    IF ~e.peb THEN [ok |-> FALSE, err |-> "PebNull", config |-> NullConfig]
    ELSE LET u_module == e.DllBase IN
    IF u_module = 0 THEN [ok |-> FALSE, err |-> "ModuleNull", config |-> NullConfig]
    ELSE LET p_img_exp_dir == get_export_directory(e, u_module) IN
    IF ~p_img_exp_dir.found
    THEN [ok |-> FALSE, err |-> "NoExportDirectory", config |-> NullConfig]
    ELSE [ok |-> TRUE, err |-> "",
          config |-> [u_module |-> u_module,
                      dw_number_of_names |-> p_img_exp_dir.NumberOfNames,
                      pdw_array_of_names |-> u_module + p_img_exp_dir.AddressOfNames,
                      pdw_array_of_addresses |-> u_module + p_img_exp_dir.AddressOfFunctions,
                      pw_array_of_ordinals |-> u_module + p_img_exp_dir.AddressOfNameOrdinals]]

init_ntdll_config_structure(e) ==
    IF ~e.peb THEN [ok |-> FALSE, err |-> "PebNull", config |-> NullConfig]
    ELSE LET u_module == e.DllBase IN
    IF u_module = 0 THEN [ok |-> FALSE, err |-> "ModuleNull", config |-> NullConfig]
    ELSE LET p_img_exp_dir == get_export_directory(e, u_module) IN
    IF ~p_img_exp_dir.found
    THEN [ok |-> FALSE, err |-> "NoExportDirectory", config |-> NullConfig]
    ELSE LET config ==
                [u_module |-> u_module,
                 dw_number_of_names |-> p_img_exp_dir.NumberOfNames,
                 pdw_array_of_names |-> u_module + p_img_exp_dir.AddressOfNames,
                 pdw_array_of_addresses |-> u_module + p_img_exp_dir.AddressOfFunctions,
                 pw_array_of_ordinals |-> u_module + p_img_exp_dir.AddressOfNameOrdinals]
         IN
    IF \/ config.u_module = 0 \/ config.dw_number_of_names = 0
       \/ config.pdw_array_of_names = 0 \/ config.pdw_array_of_addresses = 0
       \/ config.pw_array_of_ordinals = 0
    THEN [ok |-> FALSE, err |-> "ParameterNull", config |-> NullConfig]
    ELSE [ok |-> TRUE, err |-> "", config |-> config]

\* std::slice::from_raw_parts(ptr, len): the array the export directory of the
\* module keeps at ptr, cut to len entries.
SliceAt(e, ptr, len) ==
    LET whole == IF ptr = e.DllBase + e.dir.AddressOfNames THEN e.names
                 ELSE IF ptr = e.DllBase + e.dir.AddressOfFunctions THEN e.addresses
                 ELSE IF ptr = e.DllBase + e.dir.AddressOfNameOrdinals THEN e.ordinals
                 ELSE <<>>
    IN  SubSeq(whole, 1, len)

----------------------------------------------------------------------------
(* hells_gate.rs: the cache *)

NoSyscall == [dw_ssn |-> 0, dw_syscall_hash |-> 0, p_syscall_address |-> 0]

\* Mutant: the lookup never finds an entry
search_never_hits(cache, hash) == [some |-> FALSE, syscall |-> NoSyscall]

\* Mutant: only the newest entry is compared
search_newest_only(cache, hash) ==
    IF cache # <<>> /\ cache[Len(cache)].dw_syscall_hash = hash
    THEN [some |-> TRUE, syscall |-> cache[Len(cache)]]
    ELSE [some |-> FALSE, syscall |-> NoSyscall]

search_syscall_in_cache(cache, hash) ==
    LET hits == {i \in 1..Len(cache) : cache[i].dw_syscall_hash = hash} IN
    IF hits = {} THEN [some |-> FALSE, syscall |-> NoSyscall]
    ELSE [some |-> TRUE,
          syscall |-> cache[CHOOSE i \in hits : \A j \in hits : i <= j]]

\* Mutant: the new entry is pushed twice
cache_push_twice(cache, nt_sys) == Append(Append(cache, nt_sys), nt_sys)

\* Mutant: the new entry replaces the cache
cache_push_replaces(cache, nt_sys) == <<nt_sys>>

cache_push(cache, nt_sys) == Append(cache, nt_sys)

----------------------------------------------------------------------------
(* hells_gate.rs: fetch_nt_syscall *)

\* CStr::from_ptr: the bytes of the NUL-terminated string at ptr
CStrAt(e, ptr) == e.strings[ptr - e.DllBase]

\* What a call hands back: its result and the globals it leaves behind.
\* scanned counts the names the loop examined, bypass the calls of
\* find_syscall_number, hit tells a cache hit, built a build of the index, err
\* the error init_ntdll_config_structure returned.
Outcome(kind, nt_sys, conf, cache, scanned, bypass) ==
    [kind |-> kind, syscall |-> nt_sys, conf |-> conf, cache |-> cache,
     hit |-> FALSE, built |-> FALSE, scanned |-> scanned, bypass |-> bypass,
     err |-> ""]

\* Mutant: the address array indexed by the name index, not by the ordinal
function_rva_by_name_index(addresses_slice, ordinals_slice, i) ==
    addresses_slice[i + 1]

\* addresses_slice[ordinals_slice[i as usize] as usize], indices 0-based
function_rva(addresses_slice, ordinals_slice, i) ==
    addresses_slice[ordinals_slice[i + 1] + 1]

\* Mutant: the loop runs over every index 0..count-1
scan_end_full(number_of_names) == number_of_names

\* for i in 0..G_NTDLL_CONF.dw_number_of_names-1: the exclusive end of the range
scan_end(number_of_names) == number_of_names - 1

\* Mutant: a name that does not decode ends the loop
stop_after_decode_error(i, number_of_names) == number_of_names

\* Err(_) => continue: the loop goes on with the next index
next_after_decode_error(i, number_of_names) == i + 1

\* Mutant: a match whose bytes were not resolved ends the loop
stop_after_match(i, number_of_names) == number_of_names

\* A match that returned nothing falls out of the if at line 172 and the for
\* loop goes on with the next index.
next_after_match(i, number_of_names) == i + 1

\* The loop body for index i (0-based) and its continuation
RECURSIVE ScanFrom(_, _, _, _, _, _, _, _, _, _)
ScanFrom(e, m, oc, conf, cache, dw_sys_hash, i, nt_sys, scanned, bypass) ==
    IF i >= scan_end(conf.dw_number_of_names)
    THEN Outcome("ErrNotFound", NoSyscall, conf, cache, scanned, bypass)
    ELSE
    LET module_base     == conf.u_module
        names_slice     == SliceAt(e, conf.pdw_array_of_names, conf.dw_number_of_names)
        addresses_slice == SliceAt(e, conf.pdw_array_of_addresses, conf.dw_number_of_names)
        ordinals_slice  == SliceAt(e, conf.pw_array_of_ordinals, conf.dw_number_of_names)
        func_name_ptr   == module_base + names_slice[i + 1]
        func_address    == module_base + function_rva(addresses_slice, ordinals_slice, i)
        func_name       == to_str(CStrAt(e, func_name_ptr))
    IN
    IF ~func_name.ok
    THEN ScanFrom(e, m, oc, conf, cache, dw_sys_hash,
                  next_after_decode_error(i, conf.dw_number_of_names), nt_sys,
                  scanned + 1, bypass)
    ELSE IF compute_crc32_hash(func_name.name) # dw_sys_hash
    THEN ScanFrom(e, m, oc, conf, cache, dw_sys_hash, i + 1, nt_sys, scanned + 1, bypass)
    ELSE
    LET found == [nt_sys EXCEPT !.p_syscall_address = func_address]
        plain == [found EXCEPT !.dw_ssn = extract_syscall_number(m, func_address, 0)]
    IN
    IF check_syscall_bytes(m, func_address, 0)
    THEN Outcome("Ok", plain, conf, cache_push(cache, plain), scanned + 1, bypass)
    ELSE
    \* if hooked - scenario 1
    LET hook1 == ReadByte(m, func_address) = 233
        r1    == find_syscall_number(m, func_address, oc)
        b1    == IF hook1 THEN bypass + 1 ELSE bypass
        via1  == [found EXCEPT !.dw_ssn = r1.ssn]
    IN
    IF hook1 /\ r1.kind = "Some"
    THEN Outcome("Ok", via1, conf, cache_push(cache, via1), scanned + 1, b1)
    ELSE IF hook1 /\ r1.kind = "Panic"
    THEN Outcome("Panic", NoSyscall, conf, cache, scanned + 1, b1)
    ELSE
    \* if hooked - scenario 2
    LET hook2 == ReadByte(m, func_address + 3) = 233
        r2    == find_syscall_number(m, func_address, oc)
        b2    == IF hook2 THEN b1 + 1 ELSE b1
        via2  == [found EXCEPT !.dw_ssn = r2.ssn]
    IN
    IF hook2 /\ r2.kind = "Some"
    THEN Outcome("Ok", via2, conf, cache_push(cache, via2), scanned + 1, b2)
    ELSE IF hook2 /\ r2.kind = "Panic"
    THEN Outcome("Panic", NoSyscall, conf, cache, scanned + 1, b2)
    ELSE ScanFrom(e, m, oc, conf, cache, dw_sys_hash,
                  next_after_match(i, conf.dw_number_of_names), found, scanned + 1, b2)

\* Mutant: the index is built on every cache miss
need_init_always(conf) == TRUE

\* if G_NTDLL_CONF.u_module == 0
need_init(conf) == conf.u_module = 0

\* The call from the cache lookup on
fetch_known_hash(e, m, oc, conf, cache, dw_sys_hash) ==
    LET cached == search_syscall_in_cache(cache, dw_sys_hash) IN
    IF cached.some
    THEN [Outcome("Ok", cached.syscall, conf, cache, 0, 0) EXCEPT !.hit = TRUE]
    ELSE
    \* Initialize ntdll config if not found
    LET need == need_init(conf)
        made == init_ntdll_config_structure(e)
    IN
    IF need /\ ~made.ok
    THEN [Outcome("ErrConfig", NoSyscall, conf, cache, 0, 0) EXCEPT !.err = made.err]
    ELSE
    LET nt_sys == [NoSyscall EXCEPT !.dw_syscall_hash = dw_sys_hash] IN
    [ScanFrom(e, m, oc, IF need THEN made.config ELSE conf, cache, dw_sys_hash,
              0, nt_sys, 0, 0)
        EXCEPT !.built = need]

\* Mutant: the check of the hash against 0 is missing
fetch_without_zero_check(e, m, oc, conf, cache, dw_sys_hash) ==
    fetch_known_hash(e, m, oc, conf, cache, dw_sys_hash)

\* The whole call
fetch_nt_syscall(e, m, oc, conf, cache, dw_sys_hash) ==
    IF dw_sys_hash = 0
    THEN Outcome("ErrZero", NoSyscall, conf, cache, 0, 0)
    ELSE fetch_known_hash(e, m, oc, conf, cache, dw_sys_hash)

----------------------------------------------------------------------------
(* The process images the resolver is run against *)

\* Export directory of the module: five names.
\*   index 0: a name that is not valid UTF-8          -> function D
\*   index 1: "NtB"                                   -> function X
\*   index 2: "ZwB", a second name of function X      -> function X
\*   index 3: "BtN", whose hash collides with "NtB"   -> function C
\*   index 4: "NtZ", the final index                  -> function Z
ModuleBase == 1048576 * 16
RvaX == 1024 * 32
RvaC == 1024 * 64
RvaZ == 1024 * 96
RvaD == 1024 * 128

NameBad == <<78, 255, 254>>
NameNtB == <<78, 116, 66>>
NameZwB == <<90, 119, 66>>
NameBtN == <<66, 116, 78>>
NameNtZ == <<78, 116, 90>>

GoodDir == [NumberOfNames |-> 5, AddressOfNames |-> 256, AddressOfFunctions |-> 512,
            AddressOfNameOrdinals |-> 768, found |-> TRUE]

GoodEnv ==
    [peb |-> TRUE, DllBase |-> ModuleBase, dir |-> GoodDir,
     names |-> <<1024, 1040, 1056, 1072, 1088>>,
     strings |-> (1024 :> NameBad) @@ (1040 :> NameNtB) @@ (1056 :> NameZwB)
                 @@ (1072 :> NameBtN) @@ (1088 :> NameNtZ),
     addresses |-> <<RvaX, RvaC, RvaZ, RvaD, RvaD>>,
     ordinals |-> <<3, 0, 0, 1, 2>>]

\* Processes whose export index cannot be built
BrokenEnvs ==
    { [GoodEnv EXCEPT !.peb = FALSE],
      [GoodEnv EXCEPT !.DllBase = 0],
      [GoodEnv EXCEPT !.dir = NoDir],
      [GoodEnv EXCEPT !.dir = [GoodDir EXCEPT !.NumberOfNames = 0]] }

\* An export directory with a single name, "NtZ" -> function Z
OneNameEnv ==
    [GoodEnv EXCEPT !.dir = [GoodDir EXCEPT !.NumberOfNames = 1],
                    !.names = <<1088>>, !.addresses = <<RvaZ>>, !.ordinals = <<0>>]

AddrX == ModuleBase + RvaX
AddrC == ModuleBase + RvaC
AddrZ == ModuleBase + RvaZ
AddrD == ModuleBase + RvaD

\* Functions C, Z and D: intact stubs far outside the search window of X
BaseMem ==
    WriteBytes(WriteBytes(WriteBytes(<<>>, AddrC, StubBytes(119)),
                          AddrZ, StubBytes(153)), AddrD, StubBytes(17))

\* What the first bytes of function X hold
XKinds == {"canon0", "canon4660", "canon65535", "hook0", "hook3", "wide", "junk"}

XBytes(kind) ==
    CASE kind = "canon0"     -> StubBytes(0)
      [] kind = "canon4660"  -> StubBytes(4660)
      [] kind = "canon65535" -> StubBytes(65535)
      [] kind = "hook0"      -> JmpBytes
      [] kind = "hook3"      -> <<76, 139, 209, 233, 120, 86, 52, 18>>
      [] kind = "wide"       -> StubBytes(65536 + 90)
      [] kind = "junk"       -> <<72, 131, 236, 40>>

\* An intact stub next to X: none, or one k steps of 32 bytes away holding n
NeighbourSteps == {1, 255, 256}
NeighbourNumbers == {0, 91, 65535}
NoNeighbour == [k |-> 0, n |-> 0]
Neighbours == {NoNeighbour} \cup [k : NeighbourSteps, n : NeighbourNumbers]

PlaceNeighbour(m, nb, stride) ==
    IF nb.k = 0 THEN m ELSE WriteBytes(m, AddrX + nb.k * stride, StubBytes(nb.n))

Image(kind, down, up) ==
    PlaceNeighbour(PlaceNeighbour(WriteBytes(BaseMem, AddrX, XBytes(kind)),
                                  down, DOWN), up, UP)

\* The hashes callers ask for: 0, the names of the table, one no name has
Hashes == {0, compute_crc32_hash(NameNtB), compute_crc32_hash(NameZwB),
           compute_crc32_hash(NameNtZ), compute_crc32_hash(NameBad), 7}

----------------------------------------------------------------------------
(* State *)

NoCall == [called |-> FALSE, hash |-> 0, kind |-> "None", syscall |-> NoSyscall,
           hit |-> FALSE, built |-> FALSE, scanned |-> 0, bypass |-> 0,
           repeat |-> FALSE, pre_cache |-> <<>>, pre_conf |-> NullConfig,
           err |-> ""]

NoFirst == [h \in Hashes |-> [some |-> FALSE, syscall |-> NoSyscall]]

Threads == {"A", "B"}

\* The numbers callers pass to set_ssn: values of NtSyscall.dw_ssn.  ecx, r8d
\* and wSystemCall are 32 bits wide and every modelled number fits them.
SsnArgs == {24, 90, 65535}

MaxOps == 4

\* wSystemCall: .long 0x0000, the content no store has replaced yet
NoWriter == [thread |-> "none", value |-> 0]

\* lastSet: argument of the thread's latest completed set_ssn (0 if none);
\* sets: whether it completed one; used: the number its latest run entered the
\* kernel with; runs: its runs since its latest set_ssn; src: the store its
\* latest run loaded from; ops: its calls so far; before: while it is inside
\* set_ssn, what the slot held on entry; mid: while it is inside
\* run_direct_syscall, whether it loaded the slot between the two stores of
\* another thread's set_ssn, mid_old and mid_n being what the slot held
\* before that set_ssn and the argument of it.
NoHist == [arg |-> 0, lastSet |-> 0, sets |-> FALSE, used |-> 0, runs |-> 0,
           ops |-> 0, src |-> NoWriter, before |-> 0, mid |-> FALSE,
           mid_old |-> 0, mid_n |-> 0]

InitTrampoline ==
    /\ wSystemCall = 0
    /\ pc = [t \in Threads |-> "idle"]
    /\ reg = [t \in Threads |-> [eax |-> 0, ecx |-> 0]]
    /\ hist = [t \in Threads |-> NoHist]
    /\ writer = NoWriter

\* A thread outside fetch_nt_syscall.  hash: the argument; newconf, todo: the
\* value being assigned to G_NTDLL_CONF and its fields not stored yet; nt_sys,
\* len, ftodo: the descriptor being pushed, the length read and its fields
\* not stored yet; calls: calls returned; ret, ret_hash, ret_sys: the latest
\* result.
NoLocals == [hash |-> 0, newconf |-> NullConfig, todo |-> {}, nt_sys |-> NoSyscall,
             len |-> 0, ftodo |-> {}, calls |-> 0, ret |-> "None", ret_hash |-> 0,
             ret_sys |-> NoSyscall]

InitGlobals ==
    /\ G_NTDLL_CONF = NullConfig
    /\ SYSCALL_CACHE = <<>>
    /\ slots = <<>>
    /\ builds = 0
    /\ last = NoCall
    /\ first = NoFirst
    /\ rpc = [t \in Threads |-> "idle"]
    /\ rloc = [t \in Threads |-> NoLocals]

InitResolver ==
    /\ overflow_checks \in BOOLEAN
    /\ \/ /\ env = GoodEnv
          /\ \E kind \in XKinds, down \in Neighbours, up \in Neighbours :
                mem = Image(kind, down, up)
       \/ /\ env \in BrokenEnvs \cup {OneNameEnv}
          /\ mem = Image("canon4660", NoNeighbour, NoNeighbour)
    /\ InitGlobals

Init == InitResolver /\ InitTrampoline

----------------------------------------------------------------------------
(* Resolver actions *)

Resolve(h) ==
    /\ last.kind # "Panic"
    /\ \E r \in {fetch_nt_syscall(env, mem, overflow_checks, G_NTDLL_CONF,
                                 SYSCALL_CACHE, h)} :
           /\ G_NTDLL_CONF' = r.conf
           /\ SYSCALL_CACHE' = r.cache
           /\ builds' = IF r.built THEN builds + 1 ELSE builds
           /\ last' = [called |-> TRUE, hash |-> h, kind |-> r.kind,
                       syscall |-> r.syscall, hit |-> r.hit, built |-> r.built,
                       scanned |-> r.scanned, bypass |-> r.bypass,
                       repeat |-> first[h].some,
                       pre_cache |-> SYSCALL_CACHE, pre_conf |-> G_NTDLL_CONF,
                       err |-> r.err]
           /\ first' = IF r.kind = "Ok" /\ ~first[h].some
                       THEN [first EXCEPT ![h] = [some |-> TRUE, syscall |-> r.syscall]]
                       ELSE first
           /\ slots' = r.cache
    /\ UNCHANGED <<env, mem, overflow_checks>>
    /\ UNCHANGED trampVars
    /\ UNCHANGED raceVars

\* hooking::install_hook on the entry address of a resolved syscall, as the
\* test does: a jmp rel32 over the first five bytes of the stub.
Hook(i) ==
    /\ last.kind # "Panic"
    /\ ReadByte(mem, SYSCALL_CACHE[i].p_syscall_address) # 233
    /\ mem' = WriteBytes(mem, SYSCALL_CACHE[i].p_syscall_address, JmpBytes)
    /\ last' = NoCall
    /\ UNCHANGED <<env, overflow_checks, G_NTDLL_CONF, SYSCALL_CACHE, builds, first>>
    /\ UNCHANGED slots
    /\ UNCHANGED trampVars
    /\ UNCHANGED raceVars

NextResolver ==
    \/ \E h \in Hashes : Resolve(h)
    \/ \E i \in DOMAIN SYSCALL_CACHE : Hook(i)

SpecResolver == Init /\ [][NextResolver]_vars

----------------------------------------------------------------------------
(* asm.rs: the dispatch trampoline, one step per access to wSystemCall *)

\* Mutant: the second store is missing
set_ssn_store_missing(slot, r8d) == slot

\* set_ssn, second store: mov DWORD PTR wSystemCall[rip], r8d
set_ssn_store(slot, r8d) == r8d

\* Mutant: run consumes the number, leaving 0 in the slot
run_clears_slot(slot) == 0

\* run_direct_syscall reads wSystemCall and never writes it
run_direct_syscall_slot(slot) == slot

\* Mutant: eax is set to 1, not cleared, before the first store
set_ssn_first_store_one(slot) == 1

\* set_ssn, first store: xor eax, eax ; mov DWORD PTR wSystemCall[rip], eax
set_ssn_first_store(slot) == 0

\* set_ssn: xor eax, eax ; mov wSystemCall, eax
SetZero(t) ==
    /\ pc[t] = "idle"
    /\ hist[t].ops < MaxOps
    /\ \E n \in SsnArgs :
          /\ reg' = [reg EXCEPT ![t] = [eax |-> 0, ecx |-> n]]
          /\ hist' = [hist EXCEPT ![t].arg = n, ![t].before = wSystemCall]
    /\ wSystemCall' = set_ssn_first_store(wSystemCall)
    /\ writer' = [thread |-> t, value |-> set_ssn_first_store(wSystemCall)]
    /\ pc' = [pc EXCEPT ![t] = "set_ssn"]
    /\ UNCHANGED resolverVars
    /\ UNCHANGED <<slots, rpc, rloc>>

\* set_ssn: mov eax, ecx ; mov r8d, eax ; mov wSystemCall, r8d ; ret
SetStore(t) ==
    /\ pc[t] = "set_ssn"
    /\ reg' = [reg EXCEPT ![t].eax = reg[t].ecx]
    /\ wSystemCall' = set_ssn_store(wSystemCall, reg[t].ecx)
    /\ writer' = [thread |-> t, value |-> reg[t].ecx]
    /\ hist' = [hist EXCEPT ![t].lastSet = hist[t].arg, ![t].sets = TRUE,
                            ![t].runs = 0, ![t].ops = hist[t].ops + 1,
                            ![t].before = 0]
    /\ pc' = [pc EXCEPT ![t] = "idle"]
    /\ UNCHANGED resolverVars
    /\ UNCHANGED <<slots, rpc, rloc>>

\* run_direct_syscall: ... ; mov eax, wSystemCall
RunLoad(t) ==
    /\ pc[t] = "idle"
    /\ hist[t].ops < MaxOps
    /\ reg' = [reg EXCEPT ![t].eax = wSystemCall]
    /\ wSystemCall' = run_direct_syscall_slot(wSystemCall)
    /\ LET busy == {u \in Threads \ {t} : pc[u] = "set_ssn"} IN
       IF busy = {}
       THEN hist' = [hist EXCEPT ![t].src = writer, ![t].mid = FALSE,
                                 ![t].mid_old = 0, ![t].mid_n = 0]
       ELSE LET u == CHOOSE v \in busy : TRUE IN
            hist' = [hist EXCEPT ![t].src = writer, ![t].mid = TRUE,
                                 ![t].mid_old = hist[u].before,
                                 ![t].mid_n = hist[u].arg]
    /\ pc' = [pc EXCEPT ![t] = "run"]
    /\ UNCHANGED <<writer>>
    /\ UNCHANGED resolverVars
    /\ UNCHANGED <<slots, rpc, rloc>>

\* run_direct_syscall: jmp run ; syscall ; ret
RunSyscall(t) ==
    /\ pc[t] = "run"
    /\ hist' = [hist EXCEPT ![t].used = reg[t].eax,
                            ![t].runs = hist[t].runs + 1,
                            ![t].ops = hist[t].ops + 1,
                            ![t].mid = FALSE, ![t].mid_old = 0, ![t].mid_n = 0]
    /\ pc' = [pc EXCEPT ![t] = "idle"]
    /\ UNCHANGED <<wSystemCall, reg, writer>>
    /\ UNCHANGED resolverVars
    /\ UNCHANGED <<slots, rpc, rloc>>

Step(t) == SetZero(t) \/ SetStore(t) \/ RunLoad(t) \/ RunSyscall(t)

InitTrampolineOnly ==
    /\ overflow_checks = TRUE
    /\ env = GoodEnv
    /\ mem = Image("canon4660", NoNeighbour, NoNeighbour)
    /\ InitGlobals
    /\ InitTrampoline

\* Two caller threads
NextTrampoline == \E t \in Threads : Step(t)
SpecTrampoline == InitTrampolineOnly /\ [][NextTrampoline]_vars

\* One caller thread
NextTrampolineST == Step("A")
SpecTrampolineST == InitTrampolineOnly /\ [][NextTrampolineST]_vars

----------------------------------------------------------------------------
(* hells_gate.rs: fetch_nt_syscall run by two threads.  G_NTDLL_CONF and     *)
(* SYSCALL_CACHE are static mut without any synchronization, so the calls    *)
(* interleave between their accesses to the two globals.  An assignment of  *)
(* a struct is one store per field, in an order the compiler chooses.       *)
(* Vec::push reads the length, writes the element behind it and stores the  *)
(* length plus one; the buffer is taken to have room, growth is not         *)
(* modelled.                                                                 *)

\* The export directory with the names in another order:
\*   index 0: "NtB" -> function D     index 1: "NtZ" -> function X
\*   index 2: "ZwB" -> function X     index 3: "BtN" -> function C
\*   index 4: the name that does not decode -> function Z
RaceEnv == [GoodEnv EXCEPT !.names = <<1040, 1088, 1056, 1072, 1024>>]

RaceHashes == {compute_crc32_hash(NameNtB), compute_crc32_hash(NameNtZ)}

MaxCalls == 2

ConfFields == DOMAIN NullConfig
SyscallFields == DOMAIN NoSyscall

\* return from fetch_nt_syscall
Return(t, kind, nt_sys) ==
    [rloc[t] EXCEPT !.ret = kind, !.ret_hash = rloc[t].hash, !.ret_sys = nt_sys,
                    !.calls = rloc[t].calls + 1]

\* The live part of the buffer: its first len slots
LiveSlots(buffer, len) == [i \in 1..len |-> buffer[i]]

\* ptr::write(end, value), one field of it
StoreField(buffer, k, f, v) ==
    [i \in (DOMAIN buffer) \cup {k} |->
        IF i = k THEN [(IF k \in DOMAIN buffer THEN buffer[k] ELSE NoSyscall)
                            EXCEPT ![f] = v]
        ELSE buffer[i]]

\* lines 109-117: the zero check and the cache lookup
CallLookup(t, h) ==
    /\ rpc[t] = "idle"
    /\ rloc[t].calls < MaxCalls
    /\ LET cached == search_syscall_in_cache(SYSCALL_CACHE, h)
           me     == [rloc EXCEPT ![t].hash = h]
       IN  IF h = 0
           THEN /\ rloc' = [rloc EXCEPT ![t] = Return(t, "ErrZero", NoSyscall),
                                        ![t].ret_hash = h, ![t].hash = h]
                /\ rpc' = rpc
           ELSE IF cached.some
           THEN /\ rloc' = [rloc EXCEPT ![t] = Return(t, "Ok", cached.syscall),
                                        ![t].ret_hash = h, ![t].hash = h]
                /\ rpc' = rpc
           ELSE /\ rloc' = me
                /\ rpc' = [rpc EXCEPT ![t] = "check_conf"]
    /\ UNCHANGED <<resolverVars, slots, trampVars>>

\* lines 120-121: the test of u_module and the call of init
CheckConf(t) ==
    /\ rpc[t] = "check_conf"
    /\ LET made == init_ntdll_config_structure(env) IN
       IF ~need_init(G_NTDLL_CONF)
       THEN /\ rpc' = [rpc EXCEPT ![t] = "scan"]
            /\ rloc' = rloc
       ELSE IF ~made.ok
       THEN /\ rpc' = [rpc EXCEPT ![t] = "idle"]
            /\ rloc' = [rloc EXCEPT ![t] = Return(t, "ErrConfig", NoSyscall)]
       ELSE /\ rpc' = [rpc EXCEPT ![t] = "init_store"]
            /\ rloc' = [rloc EXCEPT ![t].newconf = made.config,
                                    ![t].todo = ConfFields]
    /\ UNCHANGED <<resolverVars, slots, trampVars>>

\* line 121: G_NTDLL_CONF = ..., one field of it
InitStore(t) ==
    /\ rpc[t] = "init_store"
    /\ \E f \in rloc[t].todo :
          /\ G_NTDLL_CONF' = [G_NTDLL_CONF EXCEPT ![f] = rloc[t].newconf[f]]
          /\ rloc' = [rloc EXCEPT ![t].todo = rloc[t].todo \ {f}]
          /\ rpc' = [rpc EXCEPT ![t] = IF rloc[t].todo = {f} THEN "scan"
                                                              ELSE "init_store"]
          /\ builds' = IF rloc[t].todo = {f} THEN builds + 1 ELSE builds
    /\ UNCHANGED <<env, mem, overflow_checks, SYSCALL_CACHE, last, first, slots>>
    /\ UNCHANGED trampVars

\* What the loop does with the index it reads at lines 132-137.  A count of
\* 0 panics (the subtraction overflows, or the empty slice is indexed); a
\* null array pointer under a non-zero count is read through and faults.
scan_with(e, m, oc, conf, dw_sys_hash) ==
    IF conf.dw_number_of_names = 0
    THEN Outcome("Panic", NoSyscall, conf, <<>>, 0, 0)
    ELSE IF \/ conf.pdw_array_of_names = 0 \/ conf.pdw_array_of_addresses = 0
            \/ conf.pw_array_of_ordinals = 0
    THEN Outcome("Fault", NoSyscall, conf, <<>>, 0, 0)
    ELSE ScanFrom(e, m, oc, conf, <<>>, dw_sys_hash, 0,
                  [NoSyscall EXCEPT !.dw_syscall_hash = dw_sys_hash], 0, 0)

\* lines 124-175 up to the push: the reads of G_NTDLL_CONF and the loop
Scan(t) ==
    /\ rpc[t] = "scan"
    /\ \E r \in {scan_with(env, mem, overflow_checks, G_NTDLL_CONF, rloc[t].hash)} :
          IF r.kind = "Ok"
          THEN /\ rloc' = [rloc EXCEPT ![t].nt_sys = r.syscall]
               /\ rpc' = [rpc EXCEPT ![t] = "push_len"]
          ELSE /\ rloc' = [rloc EXCEPT ![t] = Return(t, r.kind, NoSyscall)]
               /\ rpc' = IF r.kind = "Fault" THEN [u \in Threads |-> "dead"]
                         ELSE IF r.kind = "Panic" THEN [rpc EXCEPT ![t] = "dead"]
                         ELSE [rpc EXCEPT ![t] = "idle"]
    /\ UNCHANGED <<resolverVars, slots, trampVars>>

\* SYSCALL_CACHE.push: let len = self.len
PushLen(t) ==
    /\ rpc[t] = "push_len"
    /\ rloc' = [rloc EXCEPT ![t].len = Len(SYSCALL_CACHE), ![t].ftodo = SyscallFields]
    /\ rpc' = [rpc EXCEPT ![t] = "push_store"]
    /\ UNCHANGED <<resolverVars, slots, trampVars>>

\* SYSCALL_CACHE.push: ptr::write(end, value), one field of it
PushStore(t) ==
    /\ rpc[t] = "push_store"
    /\ \E f \in rloc[t].ftodo :
          /\ slots' = StoreField(slots, rloc[t].len + 1, f, rloc[t].nt_sys[f])
          /\ SYSCALL_CACHE' = LiveSlots(slots', Len(SYSCALL_CACHE))
          /\ rloc' = [rloc EXCEPT ![t].ftodo = rloc[t].ftodo \ {f}]
          /\ rpc' = [rpc EXCEPT ![t] = IF rloc[t].ftodo = {f} THEN "push_setlen"
                                                               ELSE "push_store"]
    /\ UNCHANGED <<env, mem, overflow_checks, G_NTDLL_CONF, builds, last, first>>
    /\ UNCHANGED trampVars

\* SYSCALL_CACHE.push: self.len = len + 1, and return Ok(nt_sys)
PushSetLen(t) ==
    /\ rpc[t] = "push_setlen"
    /\ SYSCALL_CACHE' = LiveSlots(slots, rloc[t].len + 1)
    /\ rloc' = [rloc EXCEPT ![t] = Return(t, "Ok", rloc[t].nt_sys)]
    /\ rpc' = [rpc EXCEPT ![t] = "idle"]
    /\ UNCHANGED <<env, mem, overflow_checks, G_NTDLL_CONF, builds, last, first, slots>>
    /\ UNCHANGED trampVars

InitRace ==
    /\ overflow_checks \in BOOLEAN
    /\ env = RaceEnv
    /\ mem = Image("canon4660", NoNeighbour, NoNeighbour)
    /\ InitGlobals
    /\ InitTrampoline

NextRace ==
    \E t \in Threads :
        \/ \E h \in RaceHashes : CallLookup(t, h)
        \/ CheckConf(t)
        \/ InitStore(t)
        \/ Scan(t)
        \/ PushLen(t)
        \/ PushStore(t)
        \/ PushSetLen(t)

SpecRace == InitRace /\ [][NextRace]_vars

----------------------------------------------------------------------------
(* What the claims speak of, read off the process image itself *)

\* The export index can be built
EnvOk == env.peb /\ env.DllBase # 0 /\ env.dir.found /\ env.dir.NumberOfNames > 0

\* Address of the function the name at index i (0-based) stands for
ExportAddress(i) == env.DllBase + env.addresses[env.ordinals[i + 1] + 1]

\* Indices of the export table whose name decodes and hashes to h
NamedIndices(h) ==
    IF ~EnvOk THEN {}
    ELSE {i \in 0..(env.dir.NumberOfNames - 1) :
            LET bytes == env.strings[env.names[i + 1]] IN
            IsUtf8From(bytes, 1) /\ HashFrom(bytes, 1, 0) = h}

\* Those of them the scan visits, and the first of these
ScannedIndices(h) == {i \in NamedIndices(h) : i <= env.dir.NumberOfNames - 2}
FirstScanned(h) == CHOOSE i \in ScannedIndices(h) : \A j \in ScannedIndices(h) : i <= j

\* The canonical prologue 4C 8B D1 B8 lo hi 00 00 at address a, and its number
IntactAt(a) ==
    <<ReadByte(mem, a), ReadByte(mem, a + 1), ReadByte(mem, a + 2), ReadByte(mem, a + 3),
      ReadByte(mem, a + 6), ReadByte(mem, a + 7)>> = <<76, 139, 209, 184, 0, 0>>
NumberAt(a) == ReadByte(mem, a + 4) + 256 * ReadByte(mem, a + 5)

HookedAt(a) == ReadByte(mem, a) = 233 \/ ReadByte(mem, a + 3) = 233

Uncached(h) == \A i \in DOMAIN last.pre_cache : last.pre_cache[i].dw_syscall_hash # h

\* Steps s of 1..255 with an intact stub 32*s bytes below (a + 32*s) or above
\* (a - 32*s) address a, and the smallest of them
IntactSteps(a) == {s \in 1..255 : IntactAt(a + 32 * s) \/ IntactAt(a - 32 * s)}
NearestStep(a) == CHOOSE s \in IntactSteps(a) : \A r \in IntactSteps(a) : s <= r

----------------------------------------------------------------------------
(* Claims *)

\* C1: once resolve(h) has succeeded, a later resolve(h), whatever calls came
\* in between, succeeds with a descriptor identical in name_hash,
\* syscall_number and entry_address to the first one, and examines no name of
\* the export table.
C1_Idempotent ==
    (last.called /\ last.repeat) =>
        /\ last.kind = "Ok"
        /\ last.syscall = first[last.hash].syscall
        /\ last.scanned = 0

\* a second resolve(h) after a resolve of another hash
C1_Witness ==
    /\ last.called /\ last.repeat /\ last.kind = "Ok"
    /\ Len(SYSCALL_CACHE) = 2
    /\ last.hash = SYSCALL_CACHE[1].dw_syscall_hash

\* C2: an entry of the cache keeps its place, its name_hash and its
\* syscall_number in every later state; and a resolve of a hash resolved
\* before, made while the stub is overwritten by a jump, returns the name_hash
\* and syscall_number of the first resolution.
C2_CacheImmutable ==
    /\ [][\A i \in DOMAIN SYSCALL_CACHE :
            /\ i \in DOMAIN SYSCALL_CACHE'
            /\ SYSCALL_CACHE'[i].dw_syscall_hash = SYSCALL_CACHE[i].dw_syscall_hash
            /\ SYSCALL_CACHE'[i].dw_ssn = SYSCALL_CACHE[i].dw_ssn]_vars
    /\ []((/\ last.called /\ last.repeat
           /\ ReadByte(mem, first[last.hash].syscall.p_syscall_address) = 233)
          => /\ last.kind = "Ok"
             /\ last.syscall.dw_syscall_hash = first[last.hash].syscall.dw_syscall_hash
             /\ last.syscall.dw_ssn = first[last.hash].syscall.dw_ssn)

\* the stub was intact (number 4660) when first resolved, a jump since
C2_Witness ==
    /\ last.called /\ last.repeat /\ last.kind = "Ok"
    /\ last.syscall.dw_ssn = 4660
    /\ ReadByte(mem, last.syscall.p_syscall_address) = 233

\* C3: resolve(0) fails with the zero-hash error in every state, examines no
\* name, does not build the export index and leaves the cache unchanged.
C3_ZeroHash ==
    (last.called /\ last.hash = 0) =>
        /\ last.kind = "ErrZero"
        /\ last.scanned = 0
        /\ last.bypass = 0
        /\ ~last.built
        /\ G_NTDLL_CONF = last.pre_conf
        /\ SYSCALL_CACHE = last.pre_cache

\* resolve(0) with an empty cache and no export index
C3_Witness ==
    /\ last.called /\ last.hash = 0 /\ last.kind = "ErrZero"
    /\ SYSCALL_CACHE = <<>> /\ G_NTDLL_CONF = NullConfig /\ EnvOk

\* C4: for an uncached hash whose first matching export in scan order has the
\* canonical prologue, resolve returns the little-endian 16-bit value of its
\* bytes 4-5 and never calls the hook-bypass search.
C4_CanonicalNumber ==
    (/\ last.called /\ last.hash # 0 /\ Uncached(last.hash)
     /\ ScannedIndices(last.hash) # {}
     /\ IntactAt(ExportAddress(FirstScanned(last.hash))))
    => /\ last.kind = "Ok"
       /\ last.syscall.dw_ssn = NumberAt(ExportAddress(FirstScanned(last.hash)))
       /\ last.bypass = 0

\* the number 0xFFFF read from an intact stub
C4_Witness ==
    /\ last.called /\ last.kind = "Ok" /\ ~last.hit
    /\ IntactAt(last.syscall.p_syscall_address)
    /\ last.syscall.dw_ssn = 65535

\* C5: for an uncached hash whose matching export X starts with a near jump
\* (byte 0 = 0xE9) and whose nearest intact neighbour lies k*32 bytes away,
\* k in 1..255, with number m, resolve returns exactly m - k when the neighbour
\* is below X (at X + k*32) and exactly m + k when it is above X (at X - k*32).
C5_NeighbourNumber ==
    (/\ last.called /\ last.hash # 0 /\ Uncached(last.hash)
     /\ ScannedIndices(last.hash) # {}
     /\ ReadByte(mem, ExportAddress(FirstScanned(last.hash))) = 233
     /\ IntactSteps(ExportAddress(FirstScanned(last.hash))) # {})
    => LET X == ExportAddress(FirstScanned(last.hash))
           k == NearestStep(X)
       IN  /\ (IntactAt(X + 32 * k) /\ ~IntactAt(X - 32 * k)) =>
                 (last.kind = "Ok" /\ last.syscall.dw_ssn = NumberAt(X + 32 * k) - k)
           /\ (IntactAt(X - 32 * k) /\ ~IntactAt(X + 32 * k)) =>
                 (last.kind = "Ok" /\ last.syscall.dw_ssn = NumberAt(X - 32 * k) + k)

\* C6 as stated: when every export the scan matches to the hash is hooked
\* (byte 0 or byte 3 is 0xE9) and no intact stub lies at +s*32 or -s*32 for s
\* in 1..255, resolve fails with the not-found error and inserts nothing.
C6_AsStated ==
    (/\ last.called /\ last.hash # 0
     /\ ScannedIndices(last.hash) # {}
     /\ \A i \in ScannedIndices(last.hash) :
            HookedAt(ExportAddress(i)) /\ IntactSteps(ExportAddress(i)) = {})
    => /\ last.kind = "ErrNotFound"
       /\ SYSCALL_CACHE = last.pre_cache

\* C6, amended: the same for a hash that is not in the cache.
C6_NoGuess ==
    (/\ last.called /\ last.hash # 0 /\ Uncached(last.hash)
     /\ ScannedIndices(last.hash) # {}
     /\ \A i \in ScannedIndices(last.hash) :
            HookedAt(ExportAddress(i)) /\ IntactSteps(ExportAddress(i)) = {})
    => /\ last.kind = "ErrNotFound"
       /\ SYSCALL_CACHE = last.pre_cache

\* a hooked export with its only intact neighbour 256 steps away
C6_Witness ==
    /\ last.called /\ last.kind = "ErrNotFound" /\ last.bypass > 0
    /\ Uncached(last.hash)
    /\ \A i \in ScannedIndices(last.hash) : IntactSteps(ExportAddress(i)) = {}
    /\ IntactAt(ModuleBase + RvaX + 32 * 256)

\* C9: every successful resolve(h) returns a descriptor whose name_hash is h
\* and whose entry_address is non-null and is the address of an export whose
\* name hashes to h.
C9_OkDescriptor ==
    (last.called /\ last.kind = "Ok") =>
        /\ last.syscall.dw_syscall_hash = last.hash
        /\ last.syscall.p_syscall_address # 0
        /\ \E i \in NamedIndices(last.hash) :
              last.syscall.p_syscall_address = ExportAddress(i)

\* a descriptor recovered by the hook-bypass search
C9_Witness ==
    /\ last.called /\ last.kind = "Ok" /\ last.bypass > 0
    /\ ~IntactAt(last.syscall.p_syscall_address)

\* C10: the export index is assigned at most once; it is assigned by the
\* first resolve of a non-zero uncached hash (when it can be built at all), by
\* no resolve(0) and by no cache hit, and once built no step changes it.
C10_BuiltOnce ==
    /\ [](builds <= 1)
    /\ []((builds = 0) <=> (G_NTDLL_CONF = NullConfig))
    /\ [](last.built => (last.hash # 0 /\ ~last.hit /\ last.pre_conf = NullConfig))
    /\ []((last.called /\ last.hash # 0 /\ ~last.hit /\ EnvOk) => builds = 1)
    /\ [][G_NTDLL_CONF # NullConfig => G_NTDLL_CONF' = G_NTDLL_CONF]_vars

\* a cache miss after the build that did not build again
C10_Witness ==
    /\ builds = 1 /\ last.called /\ last.hash # 0 /\ ~last.hit /\ ~last.built

\* C11: building the export index fails when the module base is zero, the
\* export directory is not found or the name count (or a derived array
\* pointer) is zero; resolve then returns that error, examines no name, inserts
\* nothing into the cache and leaves the index unbuilt.  In every state the
\* index is unbuilt or has a non-null base, three non-null array pointers and a
\* count above 0.
C11_ConfigFailure ==
    /\ (/\ last.called /\ last.hash # 0 /\ ~last.hit /\ last.pre_conf = NullConfig
        /\ \/ env.DllBase = 0
           \/ ~env.dir.found
           \/ env.dir.NumberOfNames = 0
           \/ env.DllBase + env.dir.AddressOfNames = 0
           \/ env.DllBase + env.dir.AddressOfFunctions = 0
           \/ env.DllBase + env.dir.AddressOfNameOrdinals = 0)
       => /\ last.kind = "ErrConfig"
          /\ last.err = (IF ~env.peb THEN "PebNull"
                         ELSE IF env.DllBase = 0 THEN "ModuleNull"
                         ELSE IF ~env.dir.found THEN "NoExportDirectory"
                         ELSE "ParameterNull")
    /\ (last.called /\ last.kind = "ErrConfig")
       => /\ last.scanned = 0 /\ last.bypass = 0 /\ ~last.built
          /\ SYSCALL_CACHE = last.pre_cache
          /\ G_NTDLL_CONF = NullConfig
          /\ builds = 0
    /\ \/ G_NTDLL_CONF = NullConfig
       \/ /\ G_NTDLL_CONF.u_module # 0
          /\ G_NTDLL_CONF.pdw_array_of_names # 0
          /\ G_NTDLL_CONF.pdw_array_of_addresses # 0
          /\ G_NTDLL_CONF.pw_array_of_ordinals # 0
          /\ G_NTDLL_CONF.dw_number_of_names > 0

\* a failed resolve against an export directory that names nothing
C11_Witness ==
    /\ last.called /\ last.kind = "ErrConfig" /\ last.err = "ParameterNull"
    /\ env.DllBase # 0 /\ env.dir.found /\ env.dir.NumberOfNames = 0
    /\ G_NTDLL_CONF = NullConfig /\ SYSCALL_CACHE = <<>>

\* Bytes at a that are neither the canonical prologue nor a hook shape
UnrecognizedAt(a) == ~IntactAt(a) /\ ~HookedAt(a)

\* C12 as stated: when the first export the scan matches to the hash has bytes
\* that are neither canonical nor a hook shape, resolve fails with the
\* not-found error at that point, examining no later export.
C12_AsStated ==
    (/\ last.called /\ last.hash # 0 /\ Uncached(last.hash)
     /\ ScannedIndices(last.hash) # {}
     /\ UnrecognizedAt(ExportAddress(FirstScanned(last.hash))))
    => /\ last.kind = "ErrNotFound"
       /\ last.scanned = FirstScanned(last.hash) + 1

\* C12, amended: after such a match the scan goes on.  When every scanned
\* export matching the hash before the first canonical one is unrecognized,
\* that canonical export is returned; when every scanned match is
\* unrecognized, resolve fails with the not-found error after examining every
\* index 0..count-2.
C12_ScanContinues ==
    (/\ last.called /\ last.hash # 0 /\ Uncached(last.hash)
     /\ ScannedIndices(last.hash) # {}
     /\ UnrecognizedAt(ExportAddress(FirstScanned(last.hash))))
    => LET S      == ScannedIndices(last.hash)
           intact == {j \in S : IntactAt(ExportAddress(j))}
       IN  /\ (\A i \in S : UnrecognizedAt(ExportAddress(i))) =>
                /\ last.kind = "ErrNotFound"
                /\ last.scanned = env.dir.NumberOfNames - 1
                /\ SYSCALL_CACHE = last.pre_cache
           /\ \A j \in intact :
                (\A i \in S : i < j => UnrecognizedAt(ExportAddress(i))) =>
                    /\ last.kind = "Ok"
                    /\ last.syscall.p_syscall_address = ExportAddress(j)
                    /\ last.syscall.dw_ssn = NumberAt(ExportAddress(j))
                    /\ last.scanned = j + 1

\* function X holds unrecognized bytes and the later export of the same hash,
\* function C, was returned
C12_Witness ==
    /\ last.called /\ last.kind = "Ok" /\ ~last.hit
    /\ last.hash = compute_crc32_hash(NameNtB)
    /\ UnrecognizedAt(AddrX)
    /\ ExportAddress(FirstScanned(last.hash)) = AddrX
    /\ last.syscall.p_syscall_address = AddrC
    /\ last.syscall.dw_ssn = 119

\* C13: the scan examines the names at indices 0.. in order and never the one
\* at index count-1: no call examines more than count-1 names, a not-found
\* failure has examined exactly the indices 0..count-2, a hash only the name
\* at index count-1 has fails with the not-found error whatever that export's
\* bytes are, and with count = 1 no name is examined.
C13_LastIndexSkipped ==
    (last.called /\ EnvOk) =>
        LET count == env.dir.NumberOfNames IN
        /\ last.scanned <= count - 1
        /\ last.kind = "ErrNotFound" => last.scanned = count - 1
        /\ (/\ last.hash # 0 /\ Uncached(last.hash)
            /\ NamedIndices(last.hash) = {count - 1})
           => /\ last.kind = "ErrNotFound"
              /\ SYSCALL_CACHE = last.pre_cache
        /\ count = 1 => last.scanned = 0

\* the hash of the name at the final index 4, whose export is intact (153)
C13_Witness ==
    /\ last.called /\ last.kind = "ErrNotFound" /\ last.scanned = 4
    /\ env.dir.NumberOfNames = 5
    /\ NamedIndices(last.hash) = {4}
    /\ IntactAt(ExportAddress(4)) /\ NumberAt(ExportAddress(4)) = 153

\* C14: for an uncached hash whose first matching export X is hooked (byte 0
\* or byte 3 is 0xE9) with an intact stub inside the window, resolve returns
\* the number inferred from the intact neighbour at the smallest step s: n - s
\* from the one at X + s*32 when that one is intact (also when the one at
\* X - s*32 is intact too), n + s from the one at X - s*32 otherwise.
C14_NearestDownFirst ==
    (/\ last.called /\ last.hash # 0 /\ Uncached(last.hash)
     /\ ScannedIndices(last.hash) # {}
     /\ HookedAt(ExportAddress(FirstScanned(last.hash)))
     /\ ~IntactAt(ExportAddress(FirstScanned(last.hash)))
     /\ IntactSteps(ExportAddress(FirstScanned(last.hash))) # {})
    => LET X == ExportAddress(FirstScanned(last.hash))
           s == NearestStep(X)
       IN  /\ last.kind = "Ok"
           /\ last.syscall.p_syscall_address = X
           /\ last.syscall.dw_ssn = IF IntactAt(X + 32 * s)
                                    THEN NumberAt(X + 32 * s) - s
                                    ELSE NumberAt(X - 32 * s) + s

\* C15: a resolve that fails or hits the cache leaves the cache as it was; a
\* successful resolve that missed the cache leaves it one entry longer, the
\* new last entry being the returned descriptor; and no resolve changes a byte
\* of module memory or the dispatch slot.
C15_AppendOnly ==
    /\ []((last.called /\ (last.kind # "Ok" \/ last.hit))
            => SYSCALL_CACHE = last.pre_cache)
    /\ []((last.called /\ last.kind = "Ok" /\ ~last.hit)
            => SYSCALL_CACHE = Append(last.pre_cache, last.syscall))
    /\ [][last'.called => (mem' = mem /\ wSystemCall' = wSystemCall)]_vars

\* a second hash resolved through the scan: the cache grew from one to two
C15_Witness ==
    /\ last.called /\ last.kind = "Ok" /\ ~last.hit
    /\ Len(last.pre_cache) = 1 /\ Len(SYSCALL_CACHE) = 2
    /\ SYSCALL_CACHE[2] = last.syscall
    /\ SYSCALL_CACHE[1] = last.pre_cache[1]

\* Indices of the export table whose name is not valid UTF-8
BadIndices ==
    IF ~EnvOk THEN {}
    ELSE {i \in 0..(env.dir.NumberOfNames - 1) :
            ~IsUtf8From(env.strings[env.names[i + 1]], 1)}

\* C16: with a name that does not decode at index i, a resolve of an uncached
\* hash whose first match j lies after i (j <= count-2) and is intact returns
\* that export, having examined the indices 0..j; and a hash no scanned name
\* has (the bytes of the malformed name never match) fails with the not-found
\* error only after every index 0..count-2 was examined.
C16_BadNameSkipped ==
    (/\ last.called /\ last.hash # 0 /\ Uncached(last.hash) /\ EnvOk
     /\ BadIndices # {})
    => /\ \A i \in BadIndices : \A j \in ScannedIndices(last.hash) :
            (j > i /\ j = FirstScanned(last.hash) /\ IntactAt(ExportAddress(j)))
            => /\ last.kind = "Ok"
               /\ last.syscall.p_syscall_address = ExportAddress(j)
               /\ last.scanned = j + 1
       /\ ScannedIndices(last.hash) = {} =>
            /\ last.kind = "ErrNotFound"
            /\ last.scanned = env.dir.NumberOfNames - 1

\* the name at index 0 does not decode and the export named at index 2 was
\* resolved
C16_Witness ==
    /\ last.called /\ last.kind = "Ok" /\ ~last.hit
    /\ 0 \in BadIndices
    /\ last.hash = compute_crc32_hash(NameZwB)
    /\ last.scanned = 3
    /\ last.syscall.p_syscall_address = ExportAddress(2)

\* The descriptor a resolve of hash h returns when no other call runs
SequentialDescriptor(h) ==
    fetch_nt_syscall(env, mem, overflow_checks, NullConfig, <<>>, h).syscall

\* C17: with two threads inside resolve, no call panics or faults; once both
\* threads are outside resolve every entry of the cache is the complete
\* descriptor of one of the resolved hashes (no mix of two descriptors); and
\* every resolve that returns Ok returns the descriptor a sequential resolve
\* of its hash returns.
C17_OnlyLostUpdates ==
    /\ \A t \in Threads : rloc[t].ret \notin {"Panic", "Fault"}
    /\ (\A t \in Threads : rpc[t] = "idle") =>
            \A i \in DOMAIN SYSCALL_CACHE :
                \E h \in RaceHashes : SYSCALL_CACHE[i] = SequentialDescriptor(h)
    /\ \A t \in Threads :
            rloc[t].ret = "Ok" => rloc[t].ret_sys = SequentialDescriptor(rloc[t].ret_hash)

\* C18: no resolve aborts in the arithmetic of the hook-bypass search, and a
\* syscall_number that search produced lies in 0..0xFFFF and is the exact
\* integer n - s of an intact stub holding n at +s*32, or n + s of one at
\* -s*32, for a step s of 1..255.
C18_NoOverflow ==
    /\ last.kind # "Panic"
    /\ (/\ last.called /\ last.kind = "Ok" /\ ~last.hit
        /\ ~IntactAt(last.syscall.p_syscall_address)) =>
        LET X == last.syscall.p_syscall_address IN
        /\ last.syscall.dw_ssn \in 0..65535
        /\ \E s \in 1..255 :
              \/ /\ IntactAt(X + 32 * s)
                 /\ last.syscall.dw_ssn = NumberAt(X + 32 * s) - s
              \/ /\ IntactAt(X - 32 * s)
                 /\ last.syscall.dw_ssn = NumberAt(X - 32 * s) + s

\* C19 as stated: a run of one thread that loads the slot while set-number(n)
\* of another thread is in progress reads the value the slot held before that
\* call or n.
C19_AsStated ==
    \A t \in Threads :
        (pc[t] = "run" /\ hist[t].mid) =>
            reg[t].eax \in {hist[t].mid_old, hist[t].mid_n}

\* C19, amended: set-number(n) stores 0 and then n; a run of another thread
\* that loads the slot between those two stores, having stored nothing itself
\* since the first of them, reads that 0, whatever the slot held before the
\* call and whatever n is.
C19_ReadsIntermediateZero ==
    \A t \in Threads :
        (pc[t] = "run" /\ hist[t].mid /\ hist[t].src.thread # t) =>
            reg[t].eax = 0

\* B loaded 0 between the stores of A's set_ssn(90); the slot held 24 before
C19_Witness ==
    /\ pc["B"] = "run" /\ hist["B"].mid
    /\ hist["B"].mid_old = 24 /\ hist["B"].mid_n = 90
    /\ hist["B"].src = [thread |-> "A", value |-> 0]
    /\ reg["B"].eax = 0

\* C20: with one caller, in every state no two entries of the cache have the
\* same name_hash, no entry has name_hash 0 and no entry has a null
\* entry_address.
C20_CacheIsFunction ==
    /\ \A i, j \in DOMAIN SYSCALL_CACHE :
            i # j => SYSCALL_CACHE[i].dw_syscall_hash # SYSCALL_CACHE[j].dw_syscall_hash
    /\ \A i \in DOMAIN SYSCALL_CACHE :
            /\ SYSCALL_CACHE[i].dw_syscall_hash # 0
            /\ SYSCALL_CACHE[i].p_syscall_address # 0

\* two hashes cached and the older one resolved again: still two entries
C20_Witness ==
    /\ Len(SYSCALL_CACHE) = 2
    /\ last.called /\ last.hit /\ last.repeat
    /\ last.hash = SYSCALL_CACHE[1].dw_syscall_hash
    /\ Len(last.pre_cache) = 2

\* C7: a run enters the kernel with whatever the latest store to the one
\* shared slot left there, whichever thread made that store; so thread A, having
\* completed set-number(a), can run with the b # a that thread B stored in
\* between (C7_Witness is that interleaving).
C7_RunUsesSharedSlot ==
    \A t \in Threads :
        (hist[t].runs > 0 /\ pc[t] # "run") =>
            hist[t].used = hist[t].src.value

\* A completed set_ssn(24), B stored 90, A's run entered the kernel with 90
C7_Witness ==
    /\ hist["A"].sets /\ hist["A"].lastSet = 24
    /\ hist["A"].runs = 1 /\ pc["A"] = "idle"
    /\ hist["A"].used = 90
    /\ hist["A"].src = [thread |-> "B", value |-> 90]
    /\ hist["B"].lastSet = 90

\* C8: with one caller thread, every run enters the kernel with the argument
\* of the latest completed set-number (0 if there was none); between calls the
\* slot holds that argument whatever it held before; and no step of run
\* changes the slot, so consecutive runs use the same number.
C8_RunUsesLatestSet ==
    /\ []((hist["A"].runs > 0 /\ pc["A"] # "run") =>
            hist["A"].used = hist["A"].lastSet)
    /\ [](pc["A"] = "idle" => wSystemCall = hist["A"].lastSet)
    /\ [][(pc["A"] = "run" \/ pc'["A"] = "run") => wSystemCall' = wSystemCall]_vars

\* two runs in a row after a set-number(65535) that overwrote an earlier number
C8_Witness ==
    /\ pc["A"] = "idle" /\ hist["A"].ops = 4
    /\ hist["A"].runs = 2 /\ hist["A"].lastSet = 65535 /\ hist["A"].used = 65535

====
